---- MODULE Spec2Model ----
(***************************************************************************)
(* Model of duolingo_user_language_analysis.py: the module-level pipeline  *)
(* that reshapes the wide "Data by country" sheet into long form, ranks    *)
(* the languages, builds the trend and ranked aggregates and the display   *)
(* table, constructs the dashboard layout, and then serves the two         *)
(* callbacks update_bar and update_table.                                  *)
(*                                                                         *)
(* Text is modelled as a sequence of one-character strings so that strip,  *)
(* startswith, the two regular expressions and the [-4:] slice are         *)
(* computed on the characters.  A missing value (NaN/None) of a text cell  *)
(* is the empty sequence; a float is a record with an isnan flag.          *)
(* A DataFrame is a sequence of row records in row order.                  *)
(***************************************************************************)
EXTENDS Integers, Sequences, FiniteSets, TLC

VARIABLES pc, n, data_by_country_df, language_cols, long_df, top_languages,
          filtered_df, line_data, bar_data, table_df, year_slider,
          stacked_bar_graph, top2_table

vars == <<pc, n, data_by_country_df, language_cols, long_df, top_languages,
          filtered_df, line_data, bar_data, table_df, year_slider,
          stacked_bar_graph, top2_table>>

----------------------------------------------------------------------------
(* Bounds and program constants *)

(* The sheet has at most MaxRows country rows *)
MaxRows == 2

(* head(10) of line 48 *)
TopN == 10

(* The head sizes the pipeline is run with: the one of line 48, and 1, at
   which one of the two languages of the sheets below is cut off *)
HeadSizes == {1, TopN}

----------------------------------------------------------------------------
(* Text and number primitives *)

NaN == <<>>

FloatNaN == [isnan |-> TRUE, v |-> 0]

Float(i) == [isnan |-> FALSE, v |-> i]

Alphabet ==
  <<" ", "0", "1", "2", "3", "4", "5", "6", "7", "8", "9",
    "C", "E", "F", "S", "_",
    "a", "c", "e", "g", "h", "i", "l", "n", "o", "p", "r", "s", "t", "u", "y">>

Ord(c) == CHOOSE i \in 1..Len(Alphabet) : Alphabet[i] = c

Digits == {"0", "1", "2", "3", "4", "5", "6", "7", "8", "9"}

DigitVal(c) == Ord(c) - 2

isspace(c) == c = " "

RECURSIVE lstrip(_)
lstrip(s) == IF s # <<>> /\ isspace(Head(s)) THEN lstrip(Tail(s)) ELSE s

RECURSIVE rstrip(_)
rstrip(s) ==
  IF s # <<>> /\ isspace(s[Len(s)]) THEN rstrip(SubSeq(s, 1, Len(s) - 1)) ELSE s

strip(s) == rstrip(lstrip(s))

startswith(s, prefix) ==
  Len(s) >= Len(prefix) /\ SubSeq(s, 1, Len(prefix)) = prefix

(* s[-4:] : the last four characters, or all of s when it is shorter *)
Last4(s) == IF Len(s) <= 4 THEN s ELSE SubSeq(s, Len(s) - 3, Len(s))

(* str(x): a missing value prints as "nan" *)
astype_str(x) == IF x = NaN THEN <<"n", "a", "n">> ELSE x

Min(S) == CHOOSE x \in S : \A y \in S : x <= y

Max(S) == CHOOSE x \in S : \A y \in S : x >= y

(* re.search(r'(\d{4})', s): the leftmost four consecutive digits *)
MatchDigits4(s) ==
  LET starts == {i \in 1..(Len(s) - 3) : \A k \in 0..3 : s[i + k] \in Digits}
  IN  IF starts = {} THEN NaN ELSE SubSeq(s, Min(starts), Min(starts) + 3)

(* re.search(r'(pop[12])', s): the leftmost "pop1" or "pop2" *)
MatchPopRank(s) ==
  LET starts == {i \in 1..(Len(s) - 3) :
                   /\ SubSeq(s, i, i + 2) = <<"p", "o", "p">>
                   /\ s[i + 3] \in {"1", "2"}}
  IN  IF starts = {} THEN NaN ELSE SubSeq(s, Min(starts), Min(starts) + 3)

RECURSIVE ParseInt(_)
ParseInt(d) ==
  IF d = <<>> THEN 0
  ELSE 10 * ParseInt(SubSeq(d, 1, Len(d) - 1)) + DigitVal(d[Len(d)])

(* pd.to_numeric(..., errors='coerce') on a text value or a missing one *)
to_numeric(s) ==
  IF s = NaN \/ \E i \in 1..Len(s) : s[i] \notin Digits
    THEN FloatNaN ELSE Float(ParseInt(s))

(* The sort key of a text: its character codes followed by a terminator *)
TextKey(s) == [i \in 1..(Len(s) + 1) |-> IF i <= Len(s) THEN Ord(s[i]) ELSE 0]

RECURSIVE KeyLess(_, _)
KeyLess(a, b) ==
  IF b = <<>> THEN FALSE
  ELSE IF a = <<>> THEN TRUE
  ELSE IF Head(a) # Head(b) THEN Head(a) < Head(b)
  ELSE KeyLess(Tail(a), Tail(b))

(* The keys of a set in ascending order *)
RECURSIVE SortedKeys(_)
SortedKeys(K) ==
  IF K = {} THEN <<>>
  ELSE LET m == CHOOSE k \in K : \A o \in K : o = k \/ KeyLess(k, o)
       IN  <<m>> \o SortedKeys(K \ {m})

Range(s) == {s[i] : i \in 1..Len(s)}

----------------------------------------------------------------------------
(* The workbook read at line 16 *)

country == <<"c", "o", "u", "n", "t", "r", "y">>

FirstHeader == <<"C", "o", "u", "n", "t", "r", "y", " ">>

pop1 == <<"p", "o", "p", "1">>

pop2 == <<"p", "o", "p", "2">>

pop12021 == <<"p", "o", "p", "1", "2", "0", "2", "1">>

pop22021 == <<"p", "o", "p", "2", "2", "0", "2", "1">>

pop1_2020 == <<"p", "o", "p", "1", "_", "2", "0", "2", "0">>

pop1_2021 == <<"p", "o", "p", "1", "_", "2", "0", "2", "1">>

pop2_2021 == <<"p", "o", "p", "2", "_", "2", "0", "2", "1">>

pop2_2020_padded == <<" ", "p", "o", "p", "2", "_", "2", "0", "2", "0", " ">>

pop_2021 == <<"p", "o", "p", "_", "2", "0", "2", "1">>

notes == <<"n", "o", "t", "e", "s">>

English == <<"E", "n", "g", "l", "i", "s", "h">>

Spanish == <<"S", "p", "a", "n", "i", "s", "h">>

France == <<"F", "r", "a", "n", "c", "e">>

Spain == <<"S", "p", "a", "i", "n">>

Spain_padded == <<" ", "S", "p", "a", "i", "n", " ">>

(* The headers of the columns after the first one *)
Headers ==
  { <<>>,
    <<notes>>,
    <<notes, pop1_2020>>,
    <<pop12021, pop22021>>,
    <<pop1_2021, pop2_2021>>,
    <<pop_2021, pop1_2020>>,
    <<pop1, pop2_2021>>,
    <<pop2_2020_padded>> }

RawCountries == {France, Spain_padded}

CellValues == {English, Spanish, NaN}

RECURSIVE Flatten(_)
Flatten(row) ==
  IF row = <<>> THEN <<>> ELSE TextKey(Head(row)) \o Flatten(Tail(row))

RawRows(k) ==
  {<<c>> \o cells : c \in RawCountries, cells \in [1..k -> CellValues]}

(* The sheets of at most MaxRows rows, one for each multiset of rows *)
RawSheets(k) ==
  UNION { {rs \in [1..m -> RawRows(k)] :
             \A i \in 1..(m - 1) :
                rs[i] = rs[i + 1] \/ KeyLess(Flatten(rs[i]), Flatten(rs[i + 1]))}
          : m \in 0..MaxRows }

read_excel ==
  UNION { {[columns |-> <<FirstHeader>> \o h, rows |-> rs] :
             rs \in RawSheets(Len(h))} : h \in Headers }

----------------------------------------------------------------------------
(* Lines 19-21: clean the column labels and the country column *)

CleanColumns(df) ==
  LET stripped == [i \in 1..Len(df.columns) |-> strip(df.columns[i])]
      renamed  == [i \in 1..Len(stripped) |->
                     IF i = 1 THEN country ELSE stripped[i]]
  IN  [columns |-> renamed,
       rows    |-> [k \in 1..Len(df.rows) |->
                      [j \in 1..Len(df.rows[k]) |->
                         IF j = 1 THEN strip(astype_str(df.rows[k][j]))
                         ELSE df.rows[k][j]]]]

(* Line 24: the columns whose name starts with "pop" *)
LanguageCols(df) ==
  SelectSeq(df.columns, LAMBDA col : startswith(col, <<"p", "o", "p">>))

ColumnIndex(df, col) == CHOOSE j \in 1..Len(df.columns) : df.columns[j] = col

(* Line 25: df[['country'] + language_cols] *)
SelectColumns(df, cols) ==
  [columns |-> cols,
   rows    |-> [k \in 1..Len(df.rows) |->
                  [j \in 1..Len(cols) |-> df.rows[k][ColumnIndex(df, cols[j])]]]]

(* A variant of Melt without the dropna on the language *)
Melt_keepna(df, value_vars) ==
  LET N == Len(df.rows)
      cell(i) ==
        LET j == (i \div N) + 1
            k == (i % N) + 1
        IN  [index    |-> i,
             country  |-> df.rows[k][ColumnIndex(df, country)],
             pop_year |-> value_vars[j],
             language |-> df.rows[k][ColumnIndex(df, value_vars[j])]]
  IN  [p \in 1..(N * Len(value_vars)) |-> cell(p - 1)]

(* Lines 28-33: melt to long form, one row per (column, country row), then
   drop the rows whose language is missing *)
Melt(df, value_vars) ==
  LET N == Len(df.rows)
      cell(i) ==
        LET j == (i \div N) + 1
            k == (i % N) + 1
        IN  [index    |-> i,
             country  |-> df.rows[k][ColumnIndex(df, country)],
             pop_year |-> value_vars[j],
             language |-> df.rows[k][ColumnIndex(df, value_vars[j])]]
      melted == [p \in 1..(N * Len(value_vars)) |-> cell(p - 1)]
  IN  SelectSeq(melted, LAMBDA r : r.language # NaN)

(* Lines 36-39: rank and year from the column name; rows without a year are
   dropped and the year becomes an integer *)
ExtractRankYear(df) ==
  LET extracted == [p \in 1..Len(df) |->
                      [index    |-> df[p].index,
                       country  |-> df[p].country,
                       pop_year |-> df[p].pop_year,
                       language |-> df[p].language,
                       rank     |-> MatchPopRank(df[p].pop_year),
                       year     |-> to_numeric(MatchDigits4(df[p].pop_year))]]
      kept == SelectSeq(extracted, LAMBDA r : ~r.year.isnan)
  IN  [p \in 1..Len(kept) |-> [kept[p] EXCEPT !.year = kept[p].year.v]]

----------------------------------------------------------------------------
(* Lines 44-51: the languages ranked by the number of distinct countries *)

Rows(df) == {df[p] : p \in 1..Len(df)}

(* A variant of nunique that counts the rows of the group (count()) *)
count_rows(group) == Cardinality(group)

(* ['country'].nunique() of one group of rows *)
nunique(group) == Cardinality({r.country : r \in group})

(* groupby('language')['country'].nunique(): one entry per language, in
   ascending order of the language *)
NuniqueByLanguage(df) ==
  LET langs == {r.language : r \in Rows(df)}
      keys  == SortedKeys({TextKey(l) : l \in langs})
  IN  [i \in 1..Len(keys) |->
         LET l == CHOOSE x \in langs : TextKey(x) = keys[i]
         IN  [language |-> l,
              country  |-> nunique({r \in Rows(df) : r.language = l})]]

(* A variant of sort_values that sorts ascending (ascending=False left out) *)
sort_values_ascending(series) ==
  LET k == Len(series)
      perms == {p \in [1..k -> 1..k] :
                  /\ \A i, j \in 1..k : p[i] = p[j] => i = j
                  /\ \A i \in 1..(k - 1) :
                        series[p[i]].country <= series[p[i + 1]].country}
  IN  {[i \in 1..k |-> series[p[i]]] : p \in perms}

(* sort_values(ascending=False) with the default, unstable sort: every
   arrangement with non-increasing values is a possible outcome *)
sort_values(series) ==
  LET k == Len(series)
      perms == {p \in [1..k -> 1..k] :
                  /\ \A i, j \in 1..k : p[i] = p[j] => i = j
                  /\ \A i \in 1..(k - 1) :
                        series[p[i]].country >= series[p[i + 1]].country}
  IN  {[i \in 1..k |-> series[p[i]]] : p \in perms}

head(s, k) == SubSeq(s, 1, IF k < Len(s) THEN k ELSE Len(s))

(* .index.tolist() *)
index_tolist(series) == [i \in 1..Len(series) |-> series[i].language]

(* A variant of isin_filter that keeps every row *)
isin_filter_all(df, top) == df

(* Line 51: long_df[long_df['language'].isin(top_languages)] *)
isin_filter(df, top) == SelectSeq(df, LAMBDA r : r.language \in Range(top))

----------------------------------------------------------------------------
(* Lines 56-63: the trend series and the ranked series *)

(* groupby(['year', 'language'])['country'].nunique().reset_index() *)
LineData(df) ==
  LET groups == {<<r.year, r.language>> : r \in Rows(df)}
      key(g) == <<g[1]>> \o TextKey(g[2])
      keys   == SortedKeys({key(g) : g \in groups})
  IN  [i \in 1..Len(keys) |->
         LET g == CHOOSE x \in groups : key(x) = keys[i]
         IN  [year          |-> g[1],
              language      |-> g[2],
              num_countries |->
                nunique({r \in Rows(df) : r.year = g[1] /\ r.language = g[2]})]]

(* groupby(['year', 'language', 'rank'])['country'].nunique().reset_index();
   groupby leaves out the rows that have a missing key *)
BarData(df) ==
  LET keyed  == {r \in Rows(df) : r.rank # NaN}
      groups == {<<r.year, r.language, r.rank>> : r \in keyed}
      key(g) == <<g[1]>> \o TextKey(g[2]) \o TextKey(g[3])
      keys   == SortedKeys({key(g) : g \in groups})
  IN  [i \in 1..Len(keys) |->
         LET g == CHOOSE x \in groups : key(x) = keys[i]
         IN  [year          |-> g[1],
              language      |-> g[2],
              rank          |-> g[3],
              num_countries |->
                nunique({r \in keyed : /\ r.year = g[1]
                                       /\ r.language = g[2]
                                       /\ r.rank = g[3]})]]

----------------------------------------------------------------------------
(* Lines 68-79: the display table *)

pretty_col_map(col) ==
  IF startswith(col, pop1) THEN <<"Most Popular ">> \o Last4(col)
  ELSE IF startswith(col, pop2) THEN <<"Second Most Popular ">> \o Last4(col)
  ELSE col

TableDf(df) ==
  [columns |-> [j \in 1..Len(df.columns) |-> pretty_col_map(df.columns[j])],
   rows    |-> df.rows]

(* to_dict('records') *)
to_dict_records(df) ==
  [k \in 1..Len(df.rows) |->
     [j \in 1..Len(df.columns) |-> <<df.columns[j], df.rows[k][j]>>]]

----------------------------------------------------------------------------
(* Lines 109-117: the year slider *)

(* Series.min() and Series.max(): NaN for an empty column *)
series_min(df) ==
  IF df = <<>> THEN FloatNaN ELSE Float(Min({r.year : r \in Rows(df)}))

series_max(df) ==
  IF df = <<>> THEN FloatNaN ELSE Float(Max({r.year : r \in Rows(df)}))

(* int(x) raises ValueError for NaN *)
int_raises(x) == x.isnan

YearSlider(df) ==
  [min   |-> series_min(df).v,
   max   |-> series_max(df).v,
   value |-> series_min(df).v,
   marks |-> {r.year : r \in Rows(df)}]

----------------------------------------------------------------------------
(* Lines 175-206: the figure of the stacked bar chart *)

rank_map(rank) ==
  IF rank = pop1 THEN <<"Most Popular">>
  ELSE IF rank = pop2 THEN <<"Second Most Popular">>
  ELSE NaN

(* bar_data[bar_data['year'] == selected_year].copy() with rank_pretty *)
YearDf(df, selected_year) ==
  LET sel == SelectSeq(df, LAMBDA r : r.year = selected_year)
  IN  [p \in 1..Len(sel) |->
         [year          |-> sel[p].year,
          language      |-> sel[p].language,
          rank          |-> sel[p].rank,
          num_countries |-> sel[p].num_countries,
          rank_pretty   |-> rank_map(sel[p].rank)]]

NoDataFigure(selected_year) ==
  [data  |-> <<[x |-> 0, y |-> <<"No data">>]>>,
   title |-> <<"No data available for ", selected_year>>,
   category_orders |-> <<>>]

BarFigure(year_df, selected_year, top) ==
  [data  |-> year_df,
   title |-> <<"Top 10 Languages in ", selected_year>>,
   category_orders |-> top]

(* A variant of Figure without the test for an empty year *)
Figure_unchecked(df, selected_year, top) ==
  BarFigure(YearDf(df, selected_year), selected_year, top)

Figure(df, selected_year, top) ==
  IF YearDf(df, selected_year) = <<>>
    THEN NoDataFigure(selected_year)
    ELSE BarFigure(YearDf(df, selected_year), selected_year, top)

(* Lines 215-220: the rows of the display table for a selection *)
FilteredTable(df, selected_countries) ==
  IF selected_countries = <<>> THEN df
  ELSE [columns |-> df.columns,
        rows    |-> SelectSeq(df.rows,
                      LAMBDA row : row[ColumnIndex(df, country)]
                                     \in Range(selected_countries))]

----------------------------------------------------------------------------
(* The program: the module-level statements in order, then the callbacks *)

NoTable == [columns |-> <<>>, rows |-> <<>>]

YearArgs == {1202, 2021, 2022}

SelectionArgs == {<<>>, <<France>>}

Init ==
  /\ pc = "loaded"
  /\ n \in HeadSizes
  /\ data_by_country_df \in read_excel
  /\ language_cols = <<>>
  /\ long_df = <<>>
  /\ top_languages = <<>>
  /\ filtered_df = <<>>
  /\ line_data = <<>>
  /\ bar_data = <<>>
  /\ table_df = NoTable
  /\ year_slider = <<>>
  /\ stacked_bar_graph = <<>>
  /\ top2_table = <<>>

(* Lines 19-25 *)
Prepare ==
  /\ pc = "loaded"
  /\ language_cols' = LanguageCols(CleanColumns(data_by_country_df))
  /\ data_by_country_df' =
       SelectColumns(CleanColumns(data_by_country_df),
                     <<country>> \o language_cols')
  /\ pc' = "selected"
  /\ UNCHANGED <<n, long_df, top_languages, filtered_df, line_data, bar_data,
                 table_df, year_slider, stacked_bar_graph, top2_table>>

(* Lines 28-33 *)
MeltLong ==
  /\ pc = "selected"
  /\ long_df' = Melt(data_by_country_df, language_cols)
  /\ pc' = "melted"
  /\ UNCHANGED <<n, data_by_country_df, language_cols, top_languages,
                 filtered_df, line_data, bar_data, table_df, year_slider,
                 stacked_bar_graph, top2_table>>

(* Lines 36-39 *)
Normalize ==
  /\ pc = "melted"
  /\ long_df' = ExtractRankYear(long_df)
  /\ pc' = "normalized"
  /\ UNCHANGED <<n, data_by_country_df, language_cols, top_languages,
                 filtered_df, line_data, bar_data, table_df, year_slider,
                 stacked_bar_graph, top2_table>>

(* Lines 44-51 *)
TopLanguages ==
  /\ pc = "normalized"
  /\ \E sorted \in sort_values(NuniqueByLanguage(long_df)) :
        top_languages' = index_tolist(head(sorted, n))
  /\ filtered_df' = isin_filter(long_df, top_languages')
  /\ pc' = "filtered"
  /\ UNCHANGED <<n, data_by_country_df, language_cols, long_df, line_data,
                 bar_data, table_df, year_slider, stacked_bar_graph,
                 top2_table>>

(* Lines 56-57 *)
BuildLineData ==
  /\ pc = "filtered"
  /\ line_data' = LineData(filtered_df)
  /\ pc' = "trended"
  /\ UNCHANGED <<n, data_by_country_df, language_cols, long_df, top_languages,
                 filtered_df, bar_data, table_df, year_slider,
                 stacked_bar_graph, top2_table>>

(* Lines 62-63 *)
BuildBarData ==
  /\ pc = "trended"
  /\ bar_data' = BarData(filtered_df)
  /\ pc' = "aggregated"
  /\ UNCHANGED <<n, data_by_country_df, language_cols, long_df, top_languages,
                 filtered_df, line_data, table_df, year_slider,
                 stacked_bar_graph, top2_table>>

(* Lines 68-79 *)
BuildTable ==
  /\ pc = "aggregated"
  /\ table_df' = TableDf(data_by_country_df)
  /\ pc' = "tabled"
  /\ UNCHANGED <<n, data_by_country_df, language_cols, long_df, top_languages,
                 filtered_df, line_data, bar_data, year_slider,
                 stacked_bar_graph, top2_table>>

(* Lines 84-166: the layout; int() of the minimum year of an empty ranked
   series raises, and the script ends there *)
BuildLayout ==
  /\ pc = "tabled"
  /\ IF int_raises(series_min(bar_data))
       THEN /\ pc' = "failed"
            /\ UNCHANGED <<year_slider, top2_table>>
       ELSE /\ pc' = "serving"
            /\ year_slider' = YearSlider(bar_data)
            /\ top2_table' = [selected_countries |-> <<>>,
                              data |-> to_dict_records(table_df)]
  /\ UNCHANGED <<n, data_by_country_df, language_cols, long_df, top_languages,
                 filtered_df, line_data, bar_data, table_df,
                 stacked_bar_graph>>

(* A variant of update_bar that adds rank_pretty to the rows of bar_data
   themselves (the .copy() of line 177 left out) *)
update_bar_inplace(selected_year) ==
  /\ pc = "serving"
  /\ bar_data' = [p \in 1..Len(bar_data) |->
                    IF bar_data[p].year = selected_year
                      THEN [year          |-> bar_data[p].year,
                            language      |-> bar_data[p].language,
                            rank          |-> bar_data[p].rank,
                            num_countries |-> bar_data[p].num_countries,
                            rank_pretty   |-> rank_map(bar_data[p].rank)]
                      ELSE bar_data[p]]
  /\ stacked_bar_graph' =
       <<[selected_year |-> selected_year,
          figure        |-> Figure(bar_data, selected_year, top_languages)]>>
  /\ UNCHANGED <<pc, n, data_by_country_df, language_cols, long_df,
                 top_languages, filtered_df, line_data, table_df,
                 year_slider, top2_table>>

(* Lines 175-206 *)
update_bar(selected_year) ==
  /\ pc = "serving"
  /\ stacked_bar_graph' =
       <<[selected_year |-> selected_year,
          figure        |-> Figure(bar_data, selected_year, top_languages)]>>
  /\ UNCHANGED <<pc, n, data_by_country_df, language_cols, long_df,
                 top_languages, filtered_df, line_data, bar_data, table_df,
                 year_slider, top2_table>>

(* Lines 215-220 *)
update_table(selected_countries) ==
  /\ pc = "serving"
  /\ top2_table' =
       [selected_countries |-> selected_countries,
        data |-> to_dict_records(FilteredTable(table_df, selected_countries))]
  /\ UNCHANGED <<pc, n, data_by_country_df, language_cols, long_df,
                 top_languages, filtered_df, line_data, bar_data, table_df,
                 year_slider, stacked_bar_graph>>

UpdateBar == \E selected_year \in YearArgs : update_bar(selected_year)

UpdateTable ==
  \E selected_countries \in SelectionArgs : update_table(selected_countries)

Next ==
  \/ Prepare
  \/ MeltLong
  \/ Normalize
  \/ TopLanguages
  \/ BuildLineData
  \/ BuildBarData
  \/ BuildTable
  \/ BuildLayout
  \/ UpdateBar
  \/ UpdateTable

Spec == Init /\ [][Next]_vars

----------------------------------------------------------------------------
(* Properties *)

AfterNormalize ==
  {"normalized", "filtered", "trended", "aggregated", "tabled", "serving",
   "failed"}

AfterTop == AfterNormalize \ {"normalized"}

AfterLine == AfterTop \ {"filtered"}

AfterBar == AfterLine \ {"trended"}

HasYear4(s) ==
  \E i \in 1..(Len(s) - 3) : \A k \in 0..3 : s[i + k] \in Digits

ValueAt(s, i) ==
  1000 * DigitVal(s[i]) + 100 * DigitVal(s[i + 1])
    + 10 * DigitVal(s[i + 2]) + DigitVal(s[i + 3])

(* The countries that have a record with this year and language *)
CountriesOf(year, language) ==
  {r.country : r \in {x \in Rows(long_df) :
                        x.year = year /\ x.language = language}}

(* The countries that have a record with this year, language and rank *)
CountriesAt(year, language, rank) ==
  {r.country : r \in {x \in Rows(long_df) :
                        x.year = year /\ x.language = language /\ x.rank = rank}}

(* The number of distinct countries of a language over all years and ranks *)
Coverage(language) ==
  Cardinality({r.country : r \in {x \in Rows(long_df) : x.language = language}})

Languages == {r.language : r \in Rows(long_df)}

(* C1: every long-form record has a non-empty language, a rank that is
   "pop1" or "pop2", and a 4-digit year that is parsed from four digits of
   its column name. *)
C1_Claim ==
  pc \in AfterNormalize =>
    \A r \in Rows(long_df) :
       /\ r.language # NaN
       /\ r.rank \in {pop1, pop2}
       /\ r.year \in 1000..9999
       /\ \E i \in 1..(Len(r.pop_year) - 3) :
             /\ \A k \in 0..3 : r.pop_year[i + k] \in Digits
             /\ r.year = ValueAt(r.pop_year, i)

(* A column named pop<rank><year>: "pop", the rank 1 or 2, four digits *)
ConventionName(s) ==
  /\ Len(s) = 8
  /\ SubSeq(s, 1, 3) = <<"p", "o", "p">>
  /\ s[4] \in {"1", "2"}
  /\ \A k \in 5..8 : s[k] \in Digits

(* C2: a record derived from a column pop<rank><year> has rank pop<rank>
   and year <year>, so the records of pop12021 and pop22021 have year 2021. *)
C2_Claim ==
  pc \in AfterNormalize =>
    \A r \in Rows(long_df) :
       ConventionName(r.pop_year) =>
         /\ r.rank = SubSeq(r.pop_year, 1, 4)
         /\ r.year = ValueAt(r.pop_year, 5)

(* C3: top_languages holds min(n, number of distinct languages) languages
   without repetition, in non-increasing order of coverage, and no language
   left out has a greater coverage than one that is in it. *)
C3_TopLanguages ==
  pc \in AfterTop =>
    /\ Len(top_languages) =
         (IF n < Cardinality(Languages) THEN n ELSE Cardinality(Languages))
    /\ Range(top_languages) \subseteq Languages
    /\ \A i, j \in 1..Len(top_languages) :
          top_languages[i] = top_languages[j] => i = j
    /\ \A i \in 1..(Len(top_languages) - 1) :
          Coverage(top_languages[i]) >= Coverage(top_languages[i + 1])
    /\ \A out \in Languages \ Range(top_languages) :
          \A in \in Range(top_languages) : Coverage(out) <= Coverage(in)

C3_Witness ==
  /\ pc = "serving"
  /\ Len(top_languages) = n
  /\ \E out \in Languages \ Range(top_languages) :
        Coverage(out) < Coverage(top_languages[1])

(* C4: every entry of line_data, of bar_data and of a year slice of bar_data
   has a language of top_languages. *)
C4_OnlyTopLanguages ==
  /\ \A e \in Rows(line_data) : e.language \in Range(top_languages)
  /\ \A e \in Rows(bar_data) : e.language \in Range(top_languages)
  /\ \A g \in Rows(stacked_bar_graph) :
        \A e \in Rows(g.figure.data) :
           g.figure.category_orders # <<>> =>
             e.language \in Range(top_languages)

C4_Witness ==
  /\ pc = "serving"
  /\ Languages \ Range(top_languages) # {}
  /\ line_data # <<>>
  /\ \E g \in Rows(stacked_bar_graph) :
        /\ g.figure.category_orders # <<>>
        /\ g.figure.data # <<>>

(* C5: each entry of line_data counts the distinct countries that have a
   record with its year and language, whatever the rank; there is exactly
   one entry for each (year, language) of the records with the language in
   top_languages, and no entry has the count 0. *)
C5_TrendCounts ==
  pc \in AfterLine =>
    /\ \A e \in Rows(line_data) :
          /\ e.num_countries = Cardinality(CountriesOf(e.year, e.language))
          /\ e.num_countries > 0
          /\ e.language \in Range(top_languages)
    /\ \A r \in Rows(long_df) :
          r.language \in Range(top_languages) =>
            Cardinality({p \in 1..Len(line_data) :
                           /\ line_data[p].year = r.year
                           /\ line_data[p].language = r.language}) = 1
    /\ \A p, q \in 1..Len(line_data) :
          (/\ line_data[p].year = line_data[q].year
           /\ line_data[p].language = line_data[q].language) => p = q

C5_Witness ==
  /\ pc \in AfterLine
  /\ \E e \in Rows(line_data) :
        /\ e.num_countries = 1
        /\ Cardinality({r \in Rows(long_df) :
                          r.year = e.year /\ r.language = e.language}) > 1
        /\ \E r \in Rows(long_df) :
              r.year = e.year /\ r.language = e.language /\ r.rank = pop1
        /\ \E r \in Rows(long_df) :
              r.year = e.year /\ r.language = e.language /\ r.rank = pop2

(* The rows of a year slice without the rank_pretty column *)
SliceEntries(data) ==
  {[year          |-> d.year,
    language      |-> d.language,
    rank          |-> d.rank,
    num_countries |-> d.num_countries] : d \in Rows(data)}

(* C6: update_bar accepts every year; for a year without an entry in
   bar_data the result is the "no data" placeholder, and for a year with
   entries it shows exactly the entries of bar_data of that year. *)
C6_YearSlice ==
  /\ pc = "serving" => \A y \in YearArgs : ENABLED update_bar(y)
  /\ \A g \in Rows(stacked_bar_graph) :
        LET entries == {e \in Rows(bar_data) : e.year = g.selected_year}
        IN  IF entries = {}
              THEN /\ g.figure.title = <<"No data available for ", g.selected_year>>
                   /\ g.figure.data = <<[x |-> 0, y |-> <<"No data">>]>>
              ELSE /\ g.figure.title = <<"Top 10 Languages in ", g.selected_year>>
                   /\ SliceEntries(g.figure.data) = entries
                   /\ Len(g.figure.data) = Cardinality(entries)

C6_Witness ==
  /\ pc = "serving"
  /\ \E g \in Rows(stacked_bar_graph) :
        /\ {e \in Rows(bar_data) : e.year = g.selected_year} = {}
        /\ year_slider.min < g.selected_year
        /\ g.selected_year < year_slider.max
        /\ g.figure.title[1] = "No data available for "

(* The cells (row k, column j) of the selected table that have a value and
   a column name with four consecutive digits *)
ValidCells ==
  {c \in (1..Len(data_by_country_df.rows)) \X (2..Len(data_by_country_df.columns)) :
     /\ data_by_country_df.rows[c[1]][c[2]] # NaN
     /\ HasYear4(data_by_country_df.columns[c[2]])}

(* C7: long_df holds exactly one record for each cell that has a value and
   a column name with a 4-digit year, and no other record; a missing cell or
   a column name without a year only leaves records out: the script fails
   only where the layout finds the ranked series empty. *)
C7_OneRecordPerValidCell ==
  /\ pc = "failed" => bar_data = <<>>
  /\ pc \in AfterNormalize =>
       /\ Len(long_df) = Cardinality(ValidCells)
       /\ \A c \in ValidCells :
             Cardinality(
               {p \in 1..Len(long_df) :
                  /\ long_df[p].index =
                       (c[2] - 2) * Len(data_by_country_df.rows) + (c[1] - 1)
                  /\ long_df[p].country = data_by_country_df.rows[c[1]][1]
                  /\ long_df[p].pop_year = data_by_country_df.columns[c[2]]
                  /\ long_df[p].language =
                       data_by_country_df.rows[c[1]][c[2]]}) = 1

C7_Witness ==
  /\ pc = "serving"
  /\ long_df # <<>>
  /\ \E k \in 1..Len(data_by_country_df.rows) :
        \E j \in 2..Len(data_by_country_df.columns) :
           /\ data_by_country_df.rows[k][j] = NaN
           /\ HasYear4(data_by_country_df.columns[j])
  /\ \E k \in 1..Len(data_by_country_df.rows) :
        \E j \in 2..Len(data_by_country_df.columns) :
           /\ data_by_country_df.rows[k][j] # NaN
           /\ ~HasYear4(data_by_country_df.columns[j])

(* C8: while the callbacks are served, no step changes long_df,
   top_languages, line_data, bar_data or the tables, and a callback invoked
   again with the argument of its previous invocation gives the same
   result. *)
C8_CallbacksPure ==
  [][pc = "serving" =>
       /\ UNCHANGED <<long_df, top_languages, filtered_df, line_data,
                      bar_data, table_df, data_by_country_df>>
       /\ \A g \in Rows(stacked_bar_graph) :
             \A h \in Rows(stacked_bar_graph') :
                g.selected_year = h.selected_year => g.figure = h.figure
       /\ top2_table.selected_countries = top2_table'.selected_countries
            => top2_table.data = top2_table'.data]_vars

C8_Witness ==
  /\ pc = "serving"
  /\ stacked_bar_graph # <<>>
  /\ stacked_bar_graph[1].figure.category_orders # <<>>
  /\ top2_table.selected_countries # <<>>
  /\ Len(top2_table.data) < Len(table_df.rows)

(* C9: with no column that begins with "pop" the pipeline stops at the
   normalizer and never builds the aggregates. *)
C9_Claim ==
  pc \in AfterBar => language_cols # <<>>

(* The count of bar_data for a year, language and rank; 0 without an entry *)
RankedCount(year, language, rank) ==
  LET hits == {e \in Rows(bar_data) :
                 e.year = year /\ e.language = language /\ e.rank = rank}
  IN  IF hits = {} THEN 0 ELSE (CHOOSE e \in hits : TRUE).num_countries

(* C10: line_data and bar_data have entries for the same (year, language)
   pairs; each count of bar_data is the number of distinct countries at that
   rank, and the count of line_data lies between the larger and the sum of
   the two ranked counts, and equals the sum exactly when no country holds
   the language at both ranks. *)
C10_Claim ==
  pc \in AfterBar =>
    /\ {<<e.year, e.language>> : e \in Rows(line_data)}
         = {<<e.year, e.language>> : e \in Rows(bar_data)}
    /\ \A e \in Rows(bar_data) :
          e.num_countries =
            Cardinality(CountriesAt(e.year, e.language, e.rank))
    /\ \A t \in Rows(line_data) :
          LET c1 == RankedCount(t.year, t.language, pop1)
              c2 == RankedCount(t.year, t.language, pop2)
          IN  /\ t.num_countries >= c1
              /\ t.num_countries >= c2
              /\ t.num_countries <= c1 + c2
              /\ (t.num_countries = c1 + c2) <=>
                   (CountriesAt(t.year, t.language, pop1)
                      \cap CountriesAt(t.year, t.language, pop2) = {})

====
